---- MODULE Spec2Model ----
(***************************************************************************)
(* TeleMux listener daemon (src/src/telemux/listener.py): the poll loop of *)
(* main(), the per-update pipeline of process_update(), the parser, the    *)
(* sanitizer (shlex.quote) and the persisted listener state.               *)
(*                                                                         *)
(* Texts are sequences of one-character strings.  A multiplexer (tmux)     *)
(* invocation, a sleep and an outbound Telegram message are each one step  *)
(* of the model; the outcome of an invocation is chosen by the environment.*)
(***************************************************************************)
EXTENDS Integers, Sequences, FiniteSets, TLC

VARIABLES
    pc,        \* position of the single thread of main()
    fifo,      \* TRUE: the transport returns every batch in increasing id order
    user_id,   \* configured user id ("" when none is configured)
    state,     \* main()'s in-memory state dict
    disk,      \* LISTENER_STATE file
    offset,    \* main()'s local offset
    inbox,     \* transport side: updates not yet confirmed by a poll
    nextId,    \* transport side: id the next new update gets
    updates,   \* the batch main() is iterating over
    idx,       \* position of the for loop in the batch
    cur,       \* process_update()'s locals once a message is being routed, and
               \* what its calls of send_telegram_message returned
    calls,     \* multiplexer invocations and sleeps of the current batch
    sent,      \* outbound messages of the current update
    outcome,   \* how process_update() ended for the current update
    completed, \* history: ids whose pipeline ran to its end at least once
    injected,  \* history: per id, successful text injections (saturating at 2)
    pin,       \* input of the pure-function specifications
    pout       \* output of the pure-function specifications

vars == <<pc, fifo, user_id, state, disk, offset, inbox, nextId, updates, idx,
          cur, calls, sent, outcome, completed, injected, pin, pout>>

(* ------------------------------ bounds --------------------------------- *)

MaxBatch == 2

MaxId == 2

MaxLen == 3
\* longest text handed to the parser on its own
MaxText == 4

(* ------------------------------ texts ---------------------------------- *)

None == <<>>

Uppers == <<"A","B","C","D","E","F","G","H","I","J","K","L","M",
            "N","O","P","Q","R","S","T","U","V","W","X","Y","Z">>

Lowers == <<"a","b","c","d","e","f","g","h","i","j","k","l","m",
            "n","o","p","q","r","s","t","u","v","w","x","y","z">>

Digits == {"0","1","2","3","4","5","6","7","8","9"}

Whitespace == {" ", "\n", "\t", "\r"}

Range(s) == {s[i] : i \in DOMAIN s}

IsUpper(c) == c \in Range(Uppers)

IsLower(c) == c \in Range(Lowers)

\* str.lower() on one character
LowerChar(c) ==
    IF IsUpper(c) THEN Lowers[CHOOSE i \in DOMAIN Uppers : Uppers[i] = c] ELSE c

\* str.lower()
Lower(t) == [i \in DOMAIN t |-> LowerChar(t[i])]

Drop(t, n) == SubSeq(t, n + 1, Len(t))

\* number of leading characters of t that are in set S
RECURSIVE LeadIn(_, _)
LeadIn(t, S) ==
    IF t # <<>> /\ Head(t) \in S THEN 1 + LeadIn(Tail(t), S) ELSE 0

\* number of trailing characters of t that are in set S
RECURSIVE TrailIn(_, _)
TrailIn(t, S) ==
    IF t # <<>> /\ t[Len(t)] \in S THEN 1 + TrailIn(SubSeq(t, 1, Len(t) - 1), S) ELSE 0

\* str.strip()
Strip(t) ==
    LET a == LeadIn(t, Whitespace)
    IN  IF a = Len(t) THEN <<>> ELSE SubSeq(t, a + 1, Len(t) - TrailIn(t, Whitespace))

StartsWith(t, c) == t # <<>> /\ t[1] = c

(* ------------------------------ parser --------------------------------- *)

\* the class [\w-] of the pattern
WordChars == Range(Uppers) \cup Range(Lowers) \cup Digits \cup {"_", "-"}

\* a pattern whose identifier may be empty
MatchesLoose(text) ==
    LET k == LeadIn(text, WordChars)
    IN  Len(text) >= k + 2 /\ text[k + 1] = ":"

\* re.match(r'^([\w-]+):\s*(.+)$', text, re.DOTALL): the identifier is the
\* maximal run of word characters, a colon follows it, and at least one
\* character is left for (.+) after the greedy \s* has given back what it must
Matches(text) ==
    LET k == LeadIn(text, WordChars)
    IN  k >= 1 /\ Len(text) >= k + 2 /\ text[k + 1] = ":"

Group1(text) == SubSeq(text, 1, LeadIn(text, WordChars))

\* a second group that keeps the whitespace after the colon
Group2KeepSpace(text) == Drop(text, LeadIn(text, WordChars) + 1)

Group2(text) ==
    LET rest == Drop(text, LeadIn(text, WordChars) + 1)
        w    == LeadIn(rest, Whitespace)
    IN  IF w = Len(rest) THEN Drop(rest, w - 1) ELSE Drop(rest, w)

\* a prefix check that strips every leading "!"
StripAllBangs(content) ==
    [content |-> Drop(content, LeadIn(content, {"!"})),
     bypass  |-> StartsWith(content, "!")]

\* the "!" prefix check of both branches
StripBang(content) ==
    IF StartsWith(content, "!")
    THEN [content |-> Tail(content), bypass |-> TRUE]
    ELSE [content |-> content, bypass |-> FALSE]

\* a parser whose pattern lets the rest be empty: ^([\w-]+):\s*(.*)$
ParseEmptyRest(text) ==
    LET k    == LeadIn(text, WordChars)
        rest == Drop(text, k + 1)
        body == Drop(rest, LeadIn(rest, Whitespace))
    IN  IF k >= 1 /\ Len(text) >= k + 1 /\ text[k + 1] = ":"
        THEN [session |-> Group1(text),
              content |-> StripBang(body).content,
              bypass  |-> StripBang(body).bypass]
        ELSE [session |-> None,
              content |-> StripBang(text).content,
              bypass  |-> StripBang(text).bypass]

parse_message_id(text) ==
    IF Matches(text)
    THEN [session |-> Group1(text),
          content |-> StripBang(Group2(text)).content,
          bypass  |-> StripBang(Group2(text)).bypass]
    ELSE [session |-> None,
          content |-> StripBang(text).content,
          bypass  |-> StripBang(text).bypass]

(* ----------------------------- sanitizer ------------------------------- *)

\* shlex._find_unsafe: [^\w@%+=:,./-] with re.ASCII
SafeChars == (WordChars \ {"-"}) \cup {"@", "%", "+", "=", ":", ",", ".", "/", "-"}

\* s.replace("'", "'\"'\"'")
RECURSIVE EscapeQuotes(_)
EscapeQuotes(s) ==
    IF s = <<>> THEN <<>>
    ELSE IF Head(s) = "'"
         THEN <<"'", "\"", "'", "\"", "'">> \o EscapeQuotes(Tail(s))
         ELSE <<Head(s)>> \o EscapeQuotes(Tail(s))

\* a quote that wraps the text without escaping the single quotes in it
QuoteNoEscape(s) == <<"'">> \o s \o <<"'">>

\* shlex.quote
Quote(s) ==
    IF s = <<>> THEN <<"'", "'">>
    ELSE IF Range(s) \subseteq SafeChars THEN s
    ELSE <<"'">> \o EscapeQuotes(s) \o <<"'">>

\* a sanitizer that is switched off
SanitizeNever(response, bypass) == response

Sanitize(response, bypass) == IF bypass THEN response ELSE Quote(response)

Hint == <<"\n", " ", "#", " ", "Respond using: tg_agent \"your response\"">>

FormatMessage(response, bypass) == Sanitize(response, bypass) \o Hint

(* --------------------- the shell reading a token ----------------------- *)

\* How a POSIX shell reads one word (the comment above the sanitizer names the
\* characters it interprets): outside quotes only the characters shlex leaves
\* bare are literal; between single quotes everything is; between double
\* quotes everything except $, the backtick and \.  ok is FALSE as soon as a character
\* is given a special meaning or a quote is left open.
\* the backtick character (the lexer has no string literal for it)
Backtick == "BACKTICK"

RECURSIVE ShellRead(_, _, _)
ShellRead(tok, mode, acc) ==
    IF tok = <<>> THEN [ok |-> mode = "plain", val |-> acc]
    ELSE LET c == Head(tok)
             r == Tail(tok)
         IN  CASE mode = "plain" /\ c = "'"  -> ShellRead(r, "single", acc)
               [] mode = "plain" /\ c = "\"" -> ShellRead(r, "double", acc)
               [] mode = "plain" /\ c \in SafeChars -> ShellRead(r, "plain", Append(acc, c))
               [] mode = "plain" -> [ok |-> FALSE, val |-> acc]
               [] mode = "single" /\ c = "'" -> ShellRead(r, "plain", acc)
               [] mode = "single" -> ShellRead(r, "single", Append(acc, c))
               [] mode = "double" /\ c = "\"" -> ShellRead(r, "plain", acc)
               [] mode = "double" /\ c \in {"$", Backtick, "\\"} -> [ok |-> FALSE, val |-> acc]
               [] OTHER -> ShellRead(r, "double", Append(acc, c))

ShellEval(tok) == ShellRead(tok, "plain", <<>>)

(* ------------------------- configuration, inputs ----------------------- *)

\* load_config(): the authorized chat id; the user id is optional
chat_id == "c1"

UserIds == {"", "u1"}

B == <<"b">>

O == <<"o">>

T_capture == <<"c","a","p","t","u","r","e">>

T_capture_on == T_capture \o <<" ","o","n">>

T_capture_off == T_capture \o <<" ","o","f","f">>

T_capture_status == T_capture \o <<" ","s","t","a","t","u","s">>

\* the commands as an operator may type them: capitals, spaces around
T_raw_on == <<" ","C","a","p","t","u","r","e"," ","O","N">>

T_raw_status == <<"C","A","P","T","U","R","E"," ","s","t","a","t","u","s","\n">>

T_explicit == <<"b", ":", " ", "$", "(", "x", ")">>

T_explicit_bypass == <<"b", ":", " ", "!", "x">>

T_implicit == <<";", "x">>

T_implicit_bypass == <<"!", "x">>

\* texts an authorized sender sends
Texts == {T_capture, T_capture_on, T_explicit, T_explicit_bypass,
          T_implicit, T_implicit_bypass}

\* texts a stranger sends: a capture command, a routed and a bypass message
StrangerTexts == {T_capture, T_explicit, T_implicit_bypass}

\* message part of an update: chat id, sender id, text
Messages ==
    [message : {TRUE}, chat : {chat_id}, from : {"u1"}, text : Texts]
    \cup [message : {TRUE}, chat : {"c2"}, from : {"u1"}, text : StrangerTexts]
    \cup [message : {TRUE}, chat : {chat_id}, from : {"u2"}, text : StrangerTexts]

\* the messages a reordering transport is explored with: what the offset
\* becomes does not depend on what an update holds
ReorderedMessages ==
    {[message |-> TRUE, chat |-> chat_id, from |-> "u1", text |-> T_explicit],
     [message |-> TRUE, chat |-> "c2", from |-> "u1", text |-> T_capture]}

\* the updates the flag commands are explored with: the three commands, typed
\* plainly or with capitals and spaces, a routed message, and an entry that
\* has no "message" key (an edited message: the same content under another
\* key)
CommandMessages ==
    [message : {TRUE}, chat : {chat_id}, from : {"u1"},
     text : {T_raw_on, T_capture_off, T_raw_status, T_explicit}]
    \cup {[message |-> FALSE, chat |-> chat_id, from |-> "u1", text |-> T_explicit]}

Update(id, m) ==
    [update_id |-> id, message |-> m.message, chat |-> m.chat, from |-> m.from,
     text |-> m.text]

\* what tmux list-sessions answers: a launch error, a non-zero exit, or names
ListResults ==
    {[raised |-> TRUE, rc |-> 0, names |-> <<>>],
     [raised |-> FALSE, rc |-> 1, names |-> <<>>]}
    \cup [raised : {FALSE}, rc : {0}, names : {<<B>>, <<O>>, <<B, O>>}]

\* what a tmux send-keys answers
RunResults == {"ok", "nonzero", "raised"}

\* what tmux capture-pane answers
\* the stdout of capture-pane is long: it is kept as runs, n times the
\* character ch each, and measured and cut in characters
Run(ch, n) == [ch |-> ch, n |-> n]

\* the longest capture text sent as it is
CaptureLimit == 3800

\* what capture-pane may print: nothing, a line, and texts around the limit
\* with and without whitespace at their ends
CaptureOuts ==
    {<<>>,
     <<Run("x", 1), Run("\n", 1)>>,
     <<Run("x", CaptureLimit)>>,
     <<Run("y", 1), Run("x", CaptureLimit - 1), Run("\n", 1)>>,
     <<Run("y", 1), Run("x", CaptureLimit)>>,
     <<Run("y", CaptureLimit), Run("x", CaptureLimit + 400), Run("\n", 1)>>}

CaptureResults ==
    {[raised |-> TRUE, rc |-> 0, out |-> <<>>],
     [raised |-> FALSE, rc |-> 1, out |-> <<>>]}
    \cup [raised : {FALSE}, rc : {0}, out : CaptureOuts]

(* ------------------------------- state --------------------------------- *)

DefaultState == [last_update_id |-> 0, last_active_session |-> None, auto_capture |-> FALSE]

NoLocals ==
    [session |-> None, response |-> <<>>, bypass |-> FALSE, via |-> "none",
     active_sessions |-> <<>>, notified |-> <<>>]

\* the text part of a message that relays no capture
NoText == [runs |-> <<>>, marker |-> ""]

Msg(kind, session, body) ==
    [kind |-> kind, session |-> session, body |-> body, text |-> NoText]

\* a message that relays a capture text
TextMsg(kind, session, text) == [Msg(kind, session, <<>>) EXCEPT !.text = text]

\* an update the loop picks in reverse arrival order
CurrentBackwards == updates[Len(updates) + 1 - idx]

\* the update the for loop is at
Current == updates[idx]

Call(op, target, keys, secs, res) ==
    [id |-> Current.update_id, op |-> op, target |-> target, keys |-> keys,
     secs |-> secs, res |-> res, out |-> <<>>]

\* json: null and a string (in its quotes) as the file holds them
JsonNull == <<"n", "u", "l", "l">>

\* json.dump of the value v of key k: numbers as they are, true and false,
\* null for None, a string in its quotes
JsonEncode(k, v) ==
    CASE k = "last_active_session" ->
            IF v = None THEN JsonNull ELSE <<"\"">> \o v \o <<"\"">>
      [] k = "auto_capture" -> IF v THEN "true" ELSE "false"
      [] OTHER -> v

\* json.load of what the file holds for key k
JsonDecode(k, x) ==
    CASE k = "last_active_session" ->
            IF x = JsonNull THEN None ELSE SubSeq(x, 2, Len(x) - 1)
      [] k = "auto_capture" -> x = "true"
      [] OTHER -> x

\* json.dump(state, f)
JsonDump(st) == [k \in DOMAIN st |-> JsonEncode(k, st[k])]

\* json.load(f)
JsonLoad(rec) == [k \in DOMAIN rec |-> JsonDecode(k, rec[k])]

\* a fill that overwrites what the record holds
WithDefaultAlways(st, k, v) == [x \in DOMAIN st \cup {k} |-> IF x = k THEN v ELSE st[x]]

\* if k not in state: state[k] = v
WithDefault(st, k, v) ==
    IF k \in DOMAIN st THEN st
    ELSE [x \in DOMAIN st \cup {k} |-> IF x = k THEN v ELSE st[x]]

\* a load that ignores the file
LoadDefaults(d) == DefaultState

\* load_state()
load_state(d) ==
    IF d.exists
    THEN WithDefault(WithDefault(JsonLoad(d.rec), "last_active_session", None),
                     "auto_capture", FALSE)
    ELSE DefaultState

\* a save that writes nothing
SaveNothing(st) == disk

\* save_state(state)
save_state(st) == [exists |-> TRUE, rec |-> JsonDump(st)]

\* LISTENER_STATE does not exist
NoFile == [exists |-> FALSE, rec |-> JsonDump(DefaultState)]

InitWith(orders) ==
    /\ fifo \in orders
    /\ user_id \in UserIds
    /\ state = DefaultState
    /\ disk = NoFile
    /\ offset = 0
    /\ inbox = <<>>
    /\ nextId = 1
    /\ updates = <<>>
    /\ idx = 1
    /\ cur = NoLocals
    /\ calls = <<>>
    /\ sent = <<>>
    /\ outcome = "none"
    /\ completed = {}
    /\ injected = [i \in 1..MaxId |-> 0]
    /\ pout = <<>>

\* the transport hands out every batch in increasing id order
Init == InitWith({TRUE}) /\ pc = "load" /\ pin = <<>>

\* the transport may hand out a batch in any order
InitAnyOrder == InitWith({TRUE, FALSE}) /\ pc = "load" /\ pin = <<>>

(* ------------------------------ main() --------------------------------- *)

Min(a, b) == IF a <= b THEN a ELSE b

\* the orders in which the transport may hand out the pending updates
Orders(batch) ==
    IF fifo THEN {batch}
    ELSE {[i \in DOMAIN batch |-> batch[f[i]]] :
            f \in {g \in [DOMAIN batch -> DOMAIN batch] :
                     \A i, j \in DOMAIN batch : i # j => g[i] # g[j]}}

\* state = load_state(); offset = state["last_update_id"]
LoadState ==
    /\ pc = "load"
    /\ state' = load_state(disk)
    /\ offset' = load_state(disk).last_update_id
    /\ pc' = "poll"
    /\ UNCHANGED <<fifo, user_id, disk, inbox, nextId, updates, idx, cur, calls,
                   sent, outcome, completed, injected, pin, pout>>

\* a loop that takes up an update whatever the poll returned
AfterPollAlwaysNext(batch) == "next"

\* "for update in updates": the first update, or the next poll when there is
\* none (after the one-second sleep)
AfterPoll(batch) == IF batch = <<>> THEN "poll" ELSE "next"

\* updates = get_telegram_updates(bot_token, offset): the transport drops what
\* the offset confirms, keeps the rest and appends what has arrived since; or
\* the call comes back empty-handed after its attempts (the transport keeps
\* what it holds)
PollFrom(pool) ==
    /\ pc = "poll"
    /\ LET kept == SelectSeq(inbox, LAMBDA u : u.update_id >= offset)
       IN  \/ \E n \in 0..Min(MaxBatch - Len(kept), MaxId + 1 - nextId) :
              \E new \in [1..n -> pool] :
                LET batch == kept \o [i \in 1..n |-> Update(nextId + i - 1, new[i])]
                IN  /\ inbox' = batch
                    /\ nextId' = nextId + n
                    /\ updates' \in Orders(batch)
                    /\ pc' = AfterPoll(updates')
           \/ /\ UNCHANGED <<inbox, nextId>>
              /\ updates' = <<>>
              /\ pc' = AfterPoll(updates')
    /\ idx' = 1
    /\ calls' = <<>>
    /\ UNCHANGED <<fifo, user_id, state, disk, offset, cur, sent, outcome,
                   completed, injected, pin, pout>>

\* updates = get_telegram_updates(bot_token, offset)
Poll == PollFrom(IF fifo THEN Messages ELSE ReorderedMessages)

\* the same, of a transport that delivers the flag commands
PollCommands == PollFrom(CommandMessages)

\* what send_telegram_message may return: True, or False when its attempts
\* are used up
NotifierResults == BOOLEAN

\* process_update() is over for the current update: each message went to
\* send_telegram_message, whose result is not looked at, and the locals are
\* gone
Finish(how, msgs) ==
    /\ pc' = "persist"
    /\ outcome' = how
    /\ sent' = msgs
    /\ \E results \in [DOMAIN msgs -> NotifierResults] :
         cur' = [NoLocals EXCEPT !.notified = results]
    /\ completed' = completed \cup {Current.update_id}

\* an offset that falls behind the update just processed
NewOffsetBehind(update_id) == update_id - 1

\* an offset that stays on an update whose reply did not go out
NewOffsetUnlessUnsent(update_id) ==
    IF FALSE \in Range(cur.notified) THEN update_id ELSE update_id + 1

\* offset = update_id + 1
NewOffset(update_id) == update_id + 1

\* offset = update_id + 1; state["last_update_id"] = offset; save_state(state)
Persist ==
    /\ pc = "persist"
    /\ offset' = NewOffset(Current.update_id)
    /\ state' = [state EXCEPT !.last_update_id = NewOffset(Current.update_id)]
    /\ disk' = save_state(state')
    /\ idx' = idx + 1
    /\ pc' = IF idx + 1 <= Len(updates) THEN "next" ELSE "poll"
    /\ cur' = NoLocals
    /\ UNCHANGED <<fifo, user_id, inbox, nextId, updates, calls, sent, outcome,
                   completed, injected, pin, pout>>

\* the process is killed and started again: only the file and the transport
\* keep what they hold
Crash ==
    /\ pc # "load"
    /\ pc' = "load"
    /\ state' = DefaultState
    /\ offset' = 0
    /\ updates' = <<>>
    /\ idx' = 1
    /\ cur' = NoLocals
    /\ calls' = <<>>
    /\ sent' = <<>>
    /\ outcome' = "none"
    /\ UNCHANGED <<fifo, user_id, disk, inbox, nextId, completed, injected, pin, pout>>

\* the process is gone (sys.exit): what it held in memory is lost
Exit(how) ==
    /\ pc' = "exited"
    /\ outcome' = how
    /\ state' = DefaultState
    /\ offset' = 0
    /\ updates' = <<>>
    /\ idx' = 1
    /\ cur' = NoLocals
    /\ calls' = <<>>
    /\ sent' = <<>>

\* save_state(state) of the loop raises (the directory or the file cannot be
\* written): the exception is outside the try around process_update() and
\* ends main() by "except Exception: sys.exit(1)"
PersistFails ==
    /\ pc = "persist"
    /\ Exit("fatal")
    /\ UNCHANGED <<fifo, user_id, disk, inbox, nextId, completed, injected, pin, pout>>

\* KeyboardInterrupt: raised wherever the main thread is, passed on by every
\* "except Exception" on its way and caught by main(), which exits
Interrupt ==
    /\ pc \notin {"load", "exited"}
    /\ Exit("interrupted")
    /\ UNCHANGED <<fifo, user_id, disk, inbox, nextId, completed, injected, pin, pout>>

(* -------------------------- process_update() ---------------------------- *)

\* an authorization that leaves out the chat id check
AuthorizedAnyChat(u) == user_id = "" \/ u.from = user_id

\* an authorization that leaves out the user id check
AuthorizedAnyUser(u) == u.chat = chat_id

\* a command check that knows no command
IsCommandNever(t) == FALSE

\* a check that takes every entry for a message
HasMessageAlways(u) == TRUE

\* "message" in update
HasMessage(u) == u.message

\* both security checks pass
Authorized(u) ==
    /\ u.chat = chat_id
    /\ (user_id = "" \/ u.from = user_id)

\* a text that is stripped but keeps its capitals
CommandTextCased(u) == Strip(u.text)

\* text = text.strip().lower()
CommandText(u) == Lower(Strip(u.text))

IsCommand(t) == t \in {T_capture, T_capture_on, T_capture_off, T_capture_status}

\* a check that takes every invocation for a success
FailedNever(r) == FALSE

\* result.returncode != 0, or subprocess.run raised
Failed(r) == r # "ok"

\* how a list-sessions or capture-pane answer reads as a result
ResultOf(r) == IF r.raised THEN "raised" ELSE IF r.rc # 0 THEN "nonzero" ELSE "ok"

\* a check that takes every answer of list-sessions for a list
ListFailedNever(r) == FALSE

\* result.returncode != 0: no tmux sessions at all
ListFailed(r) == r.rc # 0

\* a resolution that knows the explicit session only
ResolveExplicitOnly(p, st) == p.session

\* session resolution: the explicit session, else the last active one
ResolveSession(p, st) == IF p.session = None THEN st.last_active_session ELSE p.session

\* an update without a "message" key
Ignore ==
    /\ pc = "next"
    /\ ~HasMessage(Current)
    /\ Finish("ignored", <<>>)
    /\ UNCHANGED <<fifo, user_id, state, disk, offset, inbox, nextId, updates, idx,
                   calls, injected, pin, pout>>

\* an update from another chat, or from another user when one is configured
Reject ==
    /\ pc = "next"
    /\ HasMessage(Current)
    /\ ~Authorized(Current)
    /\ Finish("unauthorized", <<>>)
    /\ UNCHANGED <<fifo, user_id, state, disk, offset, inbox, nextId, updates, idx,
                   calls, injected, pin, pout>>

\* "capture": snapshot of the last active session
CmdCapture ==
    /\ pc = "next"
    /\ HasMessage(Current)
    /\ Authorized(Current)
    /\ CommandText(Current) = T_capture
    /\ IF state.last_active_session = None
       THEN Finish("command", <<Msg("no_active_capture", None, <<>>)>>)
       ELSE /\ pc' = "send_capture"
            /\ cur' = [NoLocals EXCEPT !.session = state.last_active_session, !.via = "cmd"]
            /\ outcome' = "none"
            /\ sent' = <<>>
            /\ completed' = completed
    /\ UNCHANGED <<fifo, user_id, state, disk, offset, inbox, nextId, updates, idx,
                   calls, injected, pin, pout>>

\* "capture on": set the flag, save, confirm
CmdCaptureOn ==
    /\ pc = "next"
    /\ HasMessage(Current)
    /\ Authorized(Current)
    /\ CommandText(Current) = T_capture_on
    /\ state' = [state EXCEPT !.auto_capture = TRUE]
    /\ disk' = save_state(state')
    /\ Finish("command", <<Msg("auto_on", None, <<>>)>>)
    /\ UNCHANGED <<fifo, user_id, offset, inbox, nextId, updates, idx, calls,
                   injected, pin, pout>>

\* "capture off": clear the flag, save, confirm
CmdCaptureOff ==
    /\ pc = "next"
    /\ HasMessage(Current)
    /\ Authorized(Current)
    /\ CommandText(Current) = T_capture_off
    /\ state' = [state EXCEPT !.auto_capture = FALSE]
    /\ disk' = save_state(state')
    /\ Finish("command", <<Msg("auto_off", None, <<>>)>>)
    /\ UNCHANGED <<fifo, user_id, offset, inbox, nextId, updates, idx, calls,
                   injected, pin, pout>>

\* "ON" if state.get("auto_capture") else "OFF"
StatusKind(flag) == IF flag THEN "status_on" ELSE "status_off"

\* "capture status": tell the flag
CmdCaptureStatus ==
    /\ pc = "next"
    /\ HasMessage(Current)
    /\ Authorized(Current)
    /\ CommandText(Current) = T_capture_status
    /\ Finish("command", <<Msg(StatusKind(state.auto_capture), None, <<>>)>>)
    /\ UNCHANGED <<fifo, user_id, state, disk, offset, inbox, nextId, updates, idx,
                   calls, injected, pin, pout>>

\* any other text goes to the parser; without a session to route to it ends here
Route ==
    /\ pc = "next"
    /\ HasMessage(Current)
    /\ Authorized(Current)
    /\ ~IsCommand(CommandText(Current))
    /\ LET p == parse_message_id(CommandText(Current))
           session_name == ResolveSession(p, state)
       IN  IF session_name = None
           THEN Finish("no_active", <<Msg("no_active", None, <<>>)>>)
           ELSE /\ pc' = "list"
                /\ cur' = [NoLocals EXCEPT !.session = session_name,
                                           !.response = p.content,
                                           !.bypass = p.bypass, !.via = "route"]
                /\ outcome' = "none"
                /\ sent' = <<>>
                /\ completed' = completed
    /\ UNCHANGED <<fifo, user_id, state, disk, offset, inbox, nextId, updates, idx,
                   calls, injected, pin, pout>>

\* a check that finds every session in the list
ListedAlways(session_name, active_sessions) == TRUE

\* session_name in active_sessions
Listed(session_name, active_sessions) == session_name \in Range(active_sessions)

\* tmux list-sessions, and the check that the session is among the answer
ListSessions ==
    /\ pc = "list"
    /\ \E r \in ListResults :
         /\ calls' = Append(calls, Call("list-sessions", None, <<>>, 0, ResultOf(r)))
         /\ IF r.raised
            THEN Finish("error", <<Msg("error", None, <<>>)>>)
            ELSE IF ListFailed(r)
            THEN Finish("no_sessions", <<Msg("no_sessions", None, <<>>)>>)
            ELSE IF ~Listed(cur.session, r.names)
            THEN Finish("not_found", <<Msg("not_found", cur.session, r.names)>>)
            ELSE /\ pc' = "sendtext"
                 /\ cur' = [cur EXCEPT !.active_sessions = r.names]
                 /\ UNCHANGED <<outcome, sent, completed>>
    /\ UNCHANGED <<fifo, user_id, state, disk, offset, inbox, nextId, updates, idx,
                   injected, pin, pout>>

\* tmux send-keys -t session formatted_message
SendText ==
    /\ pc = "sendtext"
    /\ \E r \in RunResults :
         /\ calls' = Append(calls, Call("send-text", cur.session,
                                        FormatMessage(cur.response, cur.bypass), 0, r))
         /\ IF ~Failed(r)
            THEN /\ pc' = "await"
                 /\ injected' = [injected EXCEPT ![Current.update_id] = Min(@ + 1, 2)]
                 /\ UNCHANGED <<cur, outcome, sent, completed>>
            ELSE /\ injected' = injected
                 /\ IF r = "raised"
                    THEN Finish("error", <<Msg("error", None, <<>>)>>)
                    ELSE Finish("text_failed", <<Msg("text_failed", None, <<>>)>>)
    /\ UNCHANGED <<fifo, user_id, state, disk, offset, inbox, nextId, updates, idx,
                   pin, pout>>

\* no wait at all
SleepSecsNone(at) == 0

\* the seconds each wait lasts
SleepSecs(at) ==
    CASE at = "await" -> 1
      [] at = "bypass_wait" -> 2
      [] at = "auto_wait" -> 5

AfterSleep(at) ==
    CASE at = "await" -> "sendenter"
      [] at = "bypass_wait" -> "bypass_capture"
      [] at = "auto_wait" -> "send_capture"

\* time.sleep(n) inside the delivery
Sleep ==
    /\ pc \in {"await", "bypass_wait", "auto_wait"}
    /\ calls' = Append(calls, Call("sleep", None, <<>>, SleepSecs(pc), "ok"))
    /\ pc' = AfterSleep(pc)
    /\ UNCHANGED <<fifo, user_id, state, disk, offset, inbox, nextId, updates, idx,
                   cur, sent, outcome, completed, injected, pin, pout>>

\* a delivery that is always followed by a capture
PostDeliveryAlwaysCapture(bypass, auto) ==
    IF bypass THEN "bypass_wait" ELSE "auto_wait"

\* what follows a delivery: the bypass capture, the auto-capture or the plain
\* confirmation
PostDelivery(bypass, auto) ==
    IF bypass THEN "bypass_wait" ELSE IF auto THEN "auto_wait" ELSE "confirm"

\* tmux send-keys -t session C-m, and what follows a delivery
SendEnter ==
    /\ pc = "sendenter"
    /\ \E r \in RunResults :
         /\ calls' = Append(calls, Call("send-enter", cur.session, <<>>, 0, r))
         /\ IF ~Failed(r)
            THEN /\ state' = [state EXCEPT !.last_active_session = cur.session]
                 /\ IF PostDelivery(cur.bypass, state.auto_capture) = "confirm"
                    THEN Finish("delivered", <<Msg("delivered", cur.session, <<>>)>>)
                    ELSE /\ pc' = PostDelivery(cur.bypass, state.auto_capture)
                         /\ UNCHANGED <<cur, outcome, sent, completed>>
            ELSE /\ state' = state
                 /\ IF r = "raised"
                    THEN Finish("error", <<Msg("error", None, <<>>)>>)
                    ELSE Finish("enter_failed", <<Msg("enter_failed", None, <<>>)>>)
    /\ UNCHANGED <<fifo, user_id, disk, offset, inbox, nextId, updates, idx,
                   injected, pin, pout>>

\* tmux capture-pane -t session -p -S -100 and what it printed
CaptureCall(target, r) ==
    [Call("capture-pane", target, <<>>, 0, ResultOf(r)) EXCEPT !.out = r.out]

RECURSIVE RunsLen(_)
\* len(output)
RunsLen(runs) == IF runs = <<>> THEN 0 ELSE Head(runs).n + RunsLen(Tail(runs))

\* stdout.strip()
StripRuns(runs) ==
    LET chars == [i \in DOMAIN runs |-> runs[i].ch]
        a == LeadIn(chars, Whitespace)
        b == TrailIn(chars, Whitespace)
    IN  IF a = Len(runs) THEN <<>> ELSE SubSeq(runs, a + 1, Len(runs) - b)

RECURSIVE LastChars(_, _)
\* output[-n:] for n > 0
LastChars(runs, n) ==
    IF runs = <<>> \/ n <= 0 THEN <<>>
    ELSE LET last == runs[Len(runs)]
         IN  IF last.n >= n
             THEN <<Run(last.ch, n)>>
             ELSE Append(LastChars(SubSeq(runs, 1, Len(runs) - 1), n - last.n), last)

\* the marker _send_capture appends
TruncatedMark == "\n\n[...truncated]"

\* the marker the bypass capture appends
BypassTruncatedMark == "\n\n[...truncated to last 3800 characters]"

\* a cut that already applies at the limit
TruncateAtLimit(output, mark) ==
    IF RunsLen(output) >= CaptureLimit
    THEN [runs |-> LastChars(output, CaptureLimit), marker |-> mark]
    ELSE [runs |-> output, marker |-> ""]

\* if len(output) > 3800: output = output[-3800:] + marker
Truncate(output, mark) ==
    IF RunsLen(output) > CaptureLimit
    THEN [runs |-> LastChars(output, CaptureLimit), marker |-> mark]
    ELSE [runs |-> output, marker |-> ""]

\* bypass mode: tmux capture-pane and the report of the output
BypassCapture ==
    /\ pc = "bypass_capture"
    /\ \E r \in CaptureResults :
         /\ calls' = Append(calls, CaptureCall(cur.session, r))
         /\ IF r.raised
            THEN Finish("delivered", <<Msg("error", None, <<>>)>>)
            ELSE IF r.rc # 0
            THEN Finish("delivered", <<Msg("bypass_capture_failed", cur.session, <<>>)>>)
            ELSE IF StripRuns(r.out) = <<>>
            THEN Finish("delivered", <<Msg("no_output", cur.session, <<>>)>>)
            ELSE Finish("delivered",
                        <<TextMsg("output", cur.session,
                                  Truncate(StripRuns(r.out), BypassTruncatedMark))>>)
    /\ UNCHANGED <<fifo, user_id, state, disk, offset, inbox, nextId, updates, idx,
                   injected, pin, pout>>

\* _send_capture(): after an auto-capture delivery or for the capture command
SendCapture ==
    /\ pc = "send_capture"
    /\ \E r \in CaptureResults :
         /\ calls' = Append(calls, CaptureCall(cur.session, r))
         /\ LET how == IF cur.via = "cmd" THEN "command" ELSE "delivered"
            IN  IF r.raised
                THEN IF cur.via = "cmd"
                     THEN Finish("exception", <<>>)
                     ELSE Finish(how, <<Msg("error", None, <<>>)>>)
                ELSE IF r.rc # 0
                THEN Finish(how, <<Msg("capture_failed", None, <<>>)>>)
                ELSE Finish(how, <<TextMsg("capture", cur.session,
                                           Truncate(StripRuns(r.out), TruncatedMark))>>)
    /\ UNCHANGED <<fifo, user_id, state, disk, offset, inbox, nextId, updates, idx,
                   injected, pin, pout>>

(* ----------------------- the sanitizer on its own ----------------------- *)

\* the characters payloads are drawn from: a letter, a space, a newline, both
\* quotes and the characters the shell interprets
PayloadChars == {"a", " ", "\n", "'", "\"", "$", "(", ")", Backtick, ";", "&", "|"}

Strings(chars, n) == UNION {[1..k -> chars] : k \in 0..n}

InitSanitize ==
    /\ InitWith({TRUE})
    /\ pc = "sanitize"
    /\ pin \in Strings(PayloadChars, MaxLen)

\* safe_response and formatted_message of a normal-mode delivery of payload pin
ApplySanitize ==
    /\ pc = "sanitize"
    /\ pc' = "sanitized"
    /\ pout' = [safe |-> Sanitize(pin, FALSE), formatted |-> FormatMessage(pin, FALSE)]
    /\ UNCHANGED <<fifo, user_id, state, disk, offset, inbox, nextId, updates, idx,
                   cur, calls, sent, outcome, completed, injected, pin>>

(* ------------------------- the parser on its own ------------------------ *)

\* the characters texts are drawn from: one of each kind the class [\w-]
\* holds, the colon, two kinds of whitespace, the "!" and a character of no
\* class
ParseChars == {"a", "1", "_", "-", ":", " ", "\n", "!", "."}

InitParse ==
    /\ InitWith({TRUE})
    /\ user_id = ""
    /\ pc = "parse"
    /\ pin \in Strings(ParseChars, MaxText)

\* parse_message_id(pin)
ApplyParse ==
    /\ pc = "parse"
    /\ pc' = "parsed"
    /\ pout' = parse_message_id(pin)
    /\ UNCHANGED <<fifo, user_id, state, disk, offset, inbox, nextId, updates, idx,
                   cur, calls, sent, outcome, completed, injected, pin>>

(* ----------------------- the parser in the pipeline --------------------- *)

\* the characters update texts are drawn from: those the parser tells apart
\* and a capital letter
RouteChars == ParseChars \cup {"A"}

\* main() has polled one update, an authorized message of any text over
\* RouteChars, with or without a last active session in the state and the file
InitRoute ==
    /\ fifo = TRUE
    /\ user_id = ""
    /\ state \in {DefaultState, [DefaultState EXCEPT !.last_active_session = B]}
    /\ disk = save_state(state)
    /\ offset = 0
    /\ \E t \in Strings(RouteChars, MaxText) :
         updates = <<Update(1, [message |-> TRUE, chat |-> chat_id, from |-> "u1",
                                text |-> t])>>
    /\ inbox = updates
    /\ nextId = 2
    /\ idx = 1
    /\ cur = NoLocals
    /\ calls = <<>>
    /\ sent = <<>>
    /\ outcome = "none"
    /\ completed = {}
    /\ injected = [i \in 1..MaxId |-> 0]
    /\ pin = <<>>
    /\ pout = <<>>
    /\ pc = "next"

(* ---------------------- the state file on its own ---------------------- *)

\* the states main() may hold
ValidStates ==
    [last_update_id : 0..(MaxId + 1),
     last_active_session : {None, B, O},
     auto_capture : BOOLEAN]

\* the keys load_state() fills in when the file lacks them
OptionalKeys == {"last_active_session", "auto_capture"}

\* no file, the files save_state() writes, and the files of older versions
\* that lack one or both of the newer keys
Files ==
    {NoFile} \cup
    {[exists |-> TRUE,
      rec |-> [k \in {"last_update_id"} \cup K |-> JsonDump(st)[k]]] :
        st \in ValidStates, K \in SUBSET OptionalKeys}

InitState ==
    /\ fifo = TRUE
    /\ user_id = ""
    /\ state \in ValidStates
    /\ disk \in Files
    /\ offset = 0
    /\ inbox = <<>>
    /\ nextId = 1
    /\ updates = <<>>
    /\ idx = 1
    /\ cur = NoLocals
    /\ calls = <<>>
    /\ sent = <<>>
    /\ outcome = "none"
    /\ completed = {}
    /\ injected = [i \in 1..MaxId |-> 0]
    /\ pin = <<>>
    /\ pout = <<>>
    /\ pc = "start"

\* state = load_state(), of the file as found or as just saved
LoadFile ==
    /\ pc \in {"start", "saved"}
    /\ pc' = IF pc = "start" THEN "loaded" ELSE "reloaded"
    /\ state' = load_state(disk)
    /\ UNCHANGED <<fifo, user_id, disk, offset, inbox, nextId, updates, idx, cur,
                   calls, sent, outcome, completed, injected, pin, pout>>

\* save_state(state), of the state as given or as just loaded
SaveFile ==
    /\ pc \in {"start", "loaded"}
    /\ pc' = IF pc = "start" THEN "saved" ELSE "resaved"
    /\ disk' = save_state(state)
    /\ UNCHANGED <<fifo, user_id, state, offset, inbox, nextId, updates, idx, cur,
                   calls, sent, outcome, completed, injected, pin, pout>>

(* ------------------- the two transport calls on their own --------------- *)

\* max_retries of get_telegram_updates
PollMaxRetries == 3

\* max_retries of send_telegram_message
SendMaxRetries == 3

\* what one requests.get may come to: a reply with "ok" and a result, a reply
\* without "ok", requests' Timeout, ConnectionError, another
\* RequestException (raise_for_status included), any other Exception
GetOutcomes ==
    [kind : {"ok"}, result : {<<>>, <<"u">>}]
    \cup [kind : {"not_ok", "timeout", "connection", "request", "other"}, result : {<<>>}]

\* what one requests.post may come to
PostOutcomes == {"ok", "timeout", "connection", "request", "other"}

\* one event of a call: a request, what it came to and what it brought, or a
\* sleep
Event(ev, got, secs, data) == [ev |-> ev, got |-> got, secs |-> secs, data |-> data]

\* a poll that gives up on a connection failure at once
PollHandlerConnectionFatal(kind) ==
    CASE kind \in {"timeout", "request"} -> "retry"
      [] kind \in {"connection", "other"} -> "abort"

\* a poll that goes round the loop after whatever went wrong
PollHandlerRetryAll(kind) == "retry"

\* the except clauses of get_telegram_updates: Timeout, ConnectionError and
\* RequestException go round the loop, any other Exception returns []
PollHandler(kind) ==
    CASE kind \in {"timeout", "connection", "request"} -> "retry"
      [] kind = "other" -> "abort"

\* a send that lets an unexpected exception through
SendHandlerUncaught(kind) ==
    CASE kind \in {"timeout", "connection", "request"} -> "retry"
      [] kind = "other" -> "raise"

\* the except clauses of send_telegram_message: Timeout and RequestException
\* (ConnectionError is one) go round the loop, any other Exception returns
\* False
SendHandler(kind) ==
    CASE kind \in {"timeout", "connection", "request"} -> "retry"
      [] kind = "other" -> "abort"

RECURSIVE Pow2(_)
Pow2(n) == IF n = 0 THEN 1 ELSE 2 * Pow2(n - 1)

\* a wait of twice the attempt number
BackoffDoubled(attempt) == 2 * attempt

\* time.sleep(2 ** attempt)
Backoff(attempt) == Pow2(attempt)

\* a call under way: the attempts made, its events, and how it ended
Running0(none) ==
    [attempt |-> 0, trace |-> <<>>, done |-> FALSE, raised |-> FALSE, value |-> none]

\* one round of "for attempt in range(max_retries)": the request, and on a
\* failure the handler's sleep and next round, or its return
Attempt(c, kind, handler, max_retries, success, failure) ==
    LET tr == Append(c.trace, Event("request", kind, 0,
                                    IF kind = "ok" THEN success ELSE failure))
        a  == c.attempt
    IN  IF kind = "ok"
        THEN [c EXCEPT !.attempt = a + 1, !.trace = tr, !.done = TRUE, !.value = success]
        ELSE IF kind = "not_ok"
        THEN [c EXCEPT !.attempt = a + 1, !.trace = tr, !.done = TRUE, !.value = failure]
        ELSE IF handler = "raise"
        THEN [c EXCEPT !.attempt = a + 1, !.trace = tr, !.done = TRUE, !.raised = TRUE]
        ELSE IF handler = "retry" /\ a < max_retries - 1
        THEN [c EXCEPT !.attempt = a + 1,
                       !.trace = Append(tr, Event("sleep", "none", Backoff(a), failure))]
        ELSE [c EXCEPT !.attempt = a + 1, !.trace = tr, !.done = TRUE, !.value = failure]

InitCall(at, none, offsets, texts) ==
    /\ fifo = TRUE
    /\ user_id = ""
    /\ state = DefaultState
    /\ disk = NoFile
    /\ offset \in offsets
    /\ inbox = <<>>
    /\ nextId = 1
    /\ updates = <<>>
    /\ idx = 1
    /\ cur = NoLocals
    /\ calls = <<>>
    /\ sent = <<>>
    /\ outcome = "none"
    /\ completed = {}
    /\ injected = [i \in 1..MaxId |-> 0]
    /\ pin \in texts
    /\ pout = Running0(none)
    /\ pc = at

\* get_telegram_updates(bot_token, offset) is called
InitGetUpdates == InitCall("get", <<>>, 0..MaxId, {<<>>})

\* send_telegram_message(bot_token, chat_id, text) is called
InitSendMessage == InitCall("send", FALSE, {0}, Strings({"o", "k"}, 1))

\* one attempt of get_telegram_updates
GetAttempt ==
    /\ pc = "get"
    /\ pout.attempt < PollMaxRetries
    /\ \E o \in GetOutcomes :
         pout' = Attempt(pout, o.kind, PollHandler(o.kind), PollMaxRetries, o.result, <<>>)
    /\ pc' = IF pout'.done THEN "got" ELSE "get"
    /\ UNCHANGED <<fifo, user_id, state, disk, offset, inbox, nextId, updates, idx,
                   cur, calls, sent, outcome, completed, injected, pin>>

\* one attempt of send_telegram_message
SendAttempt ==
    /\ pc = "send"
    /\ pout.attempt < SendMaxRetries
    /\ \E kind \in PostOutcomes :
         pout' = Attempt(pout, kind, SendHandler(kind), SendMaxRetries, TRUE, FALSE)
    /\ pc' = IF pout'.done THEN "sent" ELSE "send"
    /\ UNCHANGED <<fifo, user_id, state, disk, offset, inbox, nextId, updates, idx,
                   cur, calls, sent, outcome, completed, injected, pin>>

(* --------------------------- specifications ---------------------------- *)

Next ==
    \/ LoadState
    \/ Poll
    \/ Reject
    \/ CmdCapture
    \/ CmdCaptureOn
    \/ Route
    \/ ListSessions
    \/ SendText
    \/ Sleep
    \/ SendEnter
    \/ BypassCapture
    \/ SendCapture
    \/ Persist
    \/ PersistFails
    \/ Interrupt
    \/ Crash

\* main() with a transport that delivers the flag commands: no update of it
\* is from a stranger, is the capture command or asks for bypass
NextCommands ==
    \/ LoadState
    \/ PollCommands
    \/ Ignore
    \/ CmdCaptureOn
    \/ CmdCaptureOff
    \/ CmdCaptureStatus
    \/ Route
    \/ ListSessions
    \/ SendText
    \/ Sleep
    \/ SendEnter
    \/ SendCapture
    \/ Persist
    \/ PersistFails
    \/ Interrupt
    \/ Crash

Spec == Init /\ [][Next]_vars

SpecCommands == Init /\ [][NextCommands]_vars

SpecAnyOrder == InitAnyOrder /\ [][Next]_vars

SpecSanitize == InitSanitize /\ [][ApplySanitize]_vars

SpecParse == InitParse /\ [][ApplyParse]_vars

SpecGetUpdates == InitGetUpdates /\ [][GetAttempt]_vars

SpecSendMessage == InitSendMessage /\ [][SendAttempt]_vars

SpecState == InitState /\ [][LoadFile \/ SaveFile]_vars

\* process_update() up to the session resolution, for one update of any text
SpecRoute == InitRoute /\ [][Route]_vars

\* either transport call, called once
SpecTransport == (InitGetUpdates \/ InitSendMessage) /\ [][GetAttempt \/ SendAttempt]_vars

(* ------------------------------- claims -------------------------------- *)

\* C9: for every payload over PayloadChars, the sanitized text is one shell
\* word that the shell reads back as exactly the payload, no character of it
\* being given a special meaning, and the text to inject is that word followed
\* by the reply hint.
C9_QuoteRoundTrip ==
    pc = "sanitized" =>
        /\ ShellEval(pout.safe) = [ok |-> TRUE, val |-> pin]
        /\ pout.formatted = pout.safe \o Hint

\* C9 witness: a payload holding a command substitution and a single quote
\* has been sanitized.
C9_Witness ==
    /\ pc = "sanitized"
    /\ pin = <<"$", "(", "'">>
    /\ pout.safe # pin

\* last_update_id as the file holds it (0 while there is no file)
Persisted == load_state(disk).last_update_id

\* the step is one of the running process (not a kill or an exit of it)
Running == pc' \notin {"load", "exited"}

\* the current update is taken up by process_update() in this step
Begins == pc = "next" /\ Running

\* C1: an update from another chat than the configured one, whatever its text,
\* ends process_update() in the very step that takes it up: no multiplexer
\* invocation, no outbound message, lastActiveSession and autoCapture (the
\* whole state) unchanged.
C1_UnauthorizedChatNoEffect ==
    [][(Begins /\ Current.chat # chat_id) =>
          /\ pc' = "persist"
          /\ calls' = calls
          /\ sent' = <<>>
          /\ state' = state
          /\ disk' = disk]_vars

\* C1 witness: a routed message from another chat has been dropped while a
\* user it would otherwise satisfy is configured.
C1_Witness ==
    /\ pc = "persist"
    /\ Current.chat # chat_id
    /\ Current.from = user_id
    /\ Current.text = T_explicit
    /\ sent = <<>>

\* an authorized update is taken further: it is answered, or its routing or
\* its capture goes on
Accepted == sent' # <<>> \/ pc' \in {"list", "send_capture"}

\* C2: with a user id configured, an update of the authorized chat from
\* another sender is dropped without any effect; with none configured, every
\* sender of the authorized chat is accepted.
C2_UserIdCheck ==
    [][(Begins /\ Current.chat = chat_id) =>
          /\ (user_id # "" /\ Current.from # user_id) =>
                /\ pc' = "persist"
                /\ calls' = calls
                /\ sent' = <<>>
                /\ state' = state
                /\ disk' = disk
          /\ user_id = "" => Accepted]_vars

\* C2 witness: with no user id configured, the message of a second sender of
\* the authorized chat is being routed.
C2_Witness ==
    /\ pc = "list"
    /\ user_id = ""
    /\ Current.chat = chat_id
    /\ Current.from = "u2"

\* the invocations and sleeps made for update id in the current batch
Mine(id) == SelectSeq(calls, LAMBDA c : c.id = id)

\* the place of update id in the current batch
Pos(id) == CHOOSE i \in DOMAIN updates : updates[i].update_id = id

Keystroke(c) == c.op \in {"send-text", "send-enter"}

\* C3: the invocations of a batch are those of its first update, then those of
\* its second, and so on in arrival order; an update is taken up only when all
\* before it have run to their end; and every Enter directly follows the
\* one-second wait that directly follows the text of the same update into the
\* same session.
C3_ArrivalOrder ==
    /\ \A i, j \in DOMAIN calls : i < j => Pos(calls[i].id) <= Pos(calls[j].id)
    /\ \A i \in DOMAIN calls : Pos(calls[i].id) <= idx
    /\ pc = "next" =>
          /\ \A i \in DOMAIN calls : Pos(calls[i].id) < idx
          /\ \A k \in 1..(idx - 1) : updates[k].update_id \in completed
    /\ \A j \in DOMAIN calls : calls[j].op = "send-enter" =>
          /\ j > 2
          /\ calls[j - 1].op = "sleep" /\ calls[j - 1].id = calls[j].id
          /\ calls[j - 2].op = "send-text" /\ calls[j - 2].id = calls[j].id
          /\ calls[j - 2].target = calls[j].target

\* C3 witness: two updates of one batch have been delivered to the same
\* session, the second text after the first Enter.
C3_Witness ==
    \E i, j \in DOMAIN calls :
        /\ i < j
        /\ calls[i].op = "send-enter" /\ calls[i].res = "ok"
        /\ calls[j].op = "send-text" /\ calls[j].res = "ok"
        /\ calls[i].id # calls[j].id
        /\ calls[i].target = calls[j].target

\* what the parser makes of the current update
Parsed == parse_message_id(CommandText(Current))

\* the session the current update is for: the one it names, else the last
\* active one as persisted before the update
Target == IF Parsed.session = None THEN load_state(disk).last_active_session
                                   ELSE Parsed.session

Succeeded(id, op) == \E i \in DOMAIN Mine(id) : Mine(id)[i].op = op /\ Mine(id)[i].res = "ok"

\* C4: when process_update() has ended for an authorized normal-mode message
\* whose two injections succeeded while autoCapture is off, its invocations
\* are the session list, the text into the target, a one-second wait and the
\* Enter into the target, lastActiveSession is the target and the one message
\* sent confirms the delivery to the target; and no Enter is ever injected
\* unless the text injection two entries before it returned success.
C4_TwoPhaseDelivery ==
    /\ (/\ pc = "persist"
        /\ Authorized(Current)
        /\ ~IsCommand(CommandText(Current))
        /\ ~Parsed.bypass
        /\ ~state.auto_capture
        /\ Succeeded(Current.update_id, "send-text")
        /\ Succeeded(Current.update_id, "send-enter"))
       => LET m == Mine(Current.update_id)
          IN  /\ Len(m) = 4
              /\ m[1].op = "list-sessions"
              /\ m[2].op = "send-text" /\ m[2].target = Target
              /\ m[2].keys = Quote(Parsed.content) \o Hint
              /\ m[3].op = "sleep" /\ m[3].secs = 1
              /\ m[4].op = "send-enter" /\ m[4].target = Target
              /\ state.last_active_session = Target
              /\ sent = <<Msg("delivered", Target, <<>>)>>
    /\ \A j \in DOMAIN calls : calls[j].op = "send-enter" =>
          j > 2 /\ calls[j - 2].op = "send-text" /\ calls[j - 2].res = "ok"

\* C4 witness: "b: $(x)" has been delivered to session b and confirmed.
C4_Witness ==
    /\ pc = "persist"
    /\ Current.text = T_explicit
    /\ state.last_active_session = B
    /\ sent = <<Msg("delivered", B, <<>>)>>

FailureKinds == {"text_failed", "enter_failed", "error"}

\* C5: when process_update() has ended and one of its keystroke injections
\* returned non-zero or raised, that injection is the last thing done for the
\* update (no Enter after a failed text, no capture), each injection was made
\* once, the one message sent reports the failure, and lastActiveSession is
\* what it was before the update.
C5_FailedDelivery ==
    LET m == Mine(Current.update_id)
    IN  (/\ pc = "persist"
         /\ \E i \in DOMAIN m : Keystroke(m[i]) /\ m[i].res # "ok")
        => /\ Keystroke(m[Len(m)]) /\ m[Len(m)].res # "ok"
           /\ Cardinality({i \in DOMAIN m : m[i].op = "send-text"}) = 1
           /\ Cardinality({i \in DOMAIN m : m[i].op = "send-enter"}) <= 1
           /\ Len(sent) = 1 /\ sent[1].kind \in FailureKinds
           /\ state.last_active_session = load_state(disk).last_active_session

\* C5 witness: the Enter of a delivery returned non-zero after its text went
\* in, and the failure has been reported.
C5_Witness ==
    /\ pc = "persist"
    /\ Succeeded(Current.update_id, "send-text")
    /\ calls[Len(calls)].op = "send-enter" /\ calls[Len(calls)].res = "nonzero"
    /\ sent = <<Msg("enter_failed", None, <<>>)>>

\* the ids of the current batch increase, and none still to process is below
\* the offset
InOrder ==
    \A i \in DOMAIN updates :
        /\ i > 1 => updates[i - 1].update_id < updates[i].update_id
        /\ i >= idx => updates[i].update_id >= offset

\* C6 as stated: neither the offset of the running process nor the persisted
\* last_update_id ever decreases, whatever the order of the ids in a batch.
C6_OffsetNeverDecreases ==
    [][/\ Running => offset' >= offset
       /\ Persisted' >= Persisted]_vars

\* C6 amended: while the ids of the batch in hand arrive in increasing order,
\* none below the offset, neither the offset of the running process nor the
\* persisted last_update_id decreases.
C6_OffsetMonotoneInOrder ==
    [][InOrder =>
          /\ Running => offset' >= offset
          /\ Persisted' >= Persisted]_vars

\* C6 witness: under a transport that may reorder, a batch of two updates
\* came in increasing order and the offset has moved past both.
C6_Witness ==
    /\ ~fifo
    /\ pc = "poll"
    /\ Len(updates) = 2
    /\ updates[1].update_id < updates[2].update_id
    /\ idx = 3
    /\ offset = updates[2].update_id + 1
    /\ Persisted = offset

\* C7: whenever the loop is past an update of the batch (about to take up the
\* next one, inside it, or back at the poll), the file, the in-memory state
\* and the offset all hold that update's id + 1, whatever the update's
\* outcome was; and at the poll no update of the batch is at or above the
\* offset, so none is requested again.
C7_PersistedAfterEachUpdate ==
    /\ (idx > 1 /\ idx - 1 <= Len(updates)) =>
          /\ disk.exists
          /\ Persisted = updates[idx - 1].update_id + 1
          /\ state.last_update_id = updates[idx - 1].update_id + 1
          /\ offset = updates[idx - 1].update_id + 1
    /\ pc = "poll" => \A k \in DOMAIN updates : updates[k].update_id < offset

\* C7 witness: process_update() raised into main() for the last update of a
\* batch, and the file holds that update's id + 1.
C7_Witness ==
    /\ pc = "poll"
    /\ idx > 1
    /\ outcome = "exception"
    /\ Persisted = updates[idx - 1].update_id + 1

\* C8: the persisted offset never passes an update whose pipeline has not run
\* to its end; every poll, the first after a restart included, asks from the
\* persisted offset; the transport still holds every update from there on;
\* and the update in hand is always the first one at or above the persisted
\* offset, so none is skipped and an update cut short by a stop is processed
\* again.
C8_AtLeastOnce ==
    /\ \A id \in 1..(nextId - 1) : id < Persisted => id \in completed
    /\ pc = "poll" => offset = Persisted
    /\ \A id \in 1..(nextId - 1) :
          id >= Persisted => \E i \in DOMAIN inbox : inbox[i].update_id = id
    /\ pc \notin {"load", "poll", "exited"} =>
          /\ Current.update_id >= Persisted
          /\ \A id \in 1..(nextId - 1) : ~(Persisted <= id /\ id < Current.update_id)

\* C8 witness: after a restart the text of an update is in the session a
\* second time.
C8_Witness ==
    /\ pc = "persist"
    /\ injected[Current.update_id] = 2
    /\ outcome = "delivered"

\* the payload of a text as the parser sees it, before the "!" check
RawPayload(t) == IF Matches(t) THEN Group2(t) ELSE t

\* the text before the hint in what was injected
BeforeHint(keys) == SubSeq(keys, 1, Len(keys) - Len(Hint))

\* C10: every text injected in a batch is decided by its own update alone: if
\* the update's payload begins with "!" the payload less that one "!" is
\* injected as it is; otherwise what is injected is a quoted word the shell
\* reads back as the payload, whatever the updates before it were.
C10_BypassPerMessage ==
    \A j \in DOMAIN calls : calls[j].op = "send-text" =>
        LET raw == RawPayload(CommandText(updates[Pos(calls[j].id)]))
        IN  IF StartsWith(raw, "!")
            THEN calls[j].keys = Tail(raw) \o Hint
            ELSE /\ ShellEval(BeforeHint(calls[j].keys)) = [ok |-> TRUE, val |-> raw]
                 /\ calls[j].keys = Quote(raw) \o Hint

\* C10 witness: in one batch a bypass message went in raw, and the message
\* after it, holding shell metacharacters, went in quoted.
C10_Witness ==
    \E i, j \in DOMAIN calls :
        /\ i < j
        /\ calls[i].op = "send-text" /\ calls[j].op = "send-text"
        /\ updates[Pos(calls[i].id)].text = T_explicit_bypass
        /\ calls[i].keys = <<"x">> \o Hint
        /\ updates[Pos(calls[j].id)].text = T_implicit
        /\ calls[j].keys = <<"'", ";", "x", "'">> \o Hint

\* C11: when list-sessions answered with a list that lacks the session of the
\* update, nothing is injected, lastActiveSession stays what it was, and the
\* one message sent says "not found" without naming any session of the list
\* (so that two lists of one size give one reply).
C11_NotFoundCountOnly ==
    (pc = "persist" /\ outcome = "not_found")
    => LET m == Mine(Current.update_id)
       IN  /\ \A i \in DOMAIN m : ~Keystroke(m[i])
           /\ state.last_active_session = load_state(disk).last_active_session
           /\ Len(sent) = 1
           /\ sent[1].kind = "not_found"
           /\ \A s \in {B, O} : s \notin Range(sent[1].body)

\* C12: when process_update() has ended for an update whose list-sessions
\* returned non-zero, that query is the only invocation made for the update,
\* the one message sent says that no tmux sessions are running, and
\* lastActiveSession is what it was before the update.
C12_ListFailureTerminal ==
    LET m == Mine(Current.update_id)
    IN  (/\ pc = "persist"
         /\ \E i \in DOMAIN m : m[i].op = "list-sessions" /\ m[i].res = "nonzero")
        => /\ Len(m) = 1
           /\ sent = <<Msg("no_sessions", None, <<>>)>>
           /\ state.last_active_session = load_state(disk).last_active_session

\* C12 witness: ";x", on its way to the last active session b, met a failing
\* list-sessions, and the operator has been told.
C12_Witness ==
    /\ pc = "persist"
    /\ Current.text = T_implicit
    /\ calls # <<>>
    /\ calls[Len(calls)].op = "list-sessions" /\ calls[Len(calls)].res = "nonzero"
    /\ state.last_active_session = B
    /\ outcome = "no_sessions"

\* C13: an authorized message that names no session goes on to list-sessions
\* for the last active session; when there is none it ends in the step that
\* takes it up, with the one reply "no active session", no invocation at all
\* and the state, in memory and in the file, unchanged.
C13_ImplicitRouting ==
    [][(/\ Begins
        /\ Authorized(Current)
        /\ ~IsCommand(CommandText(Current))
        /\ Parsed.session = None)
       => IF state.last_active_session = None
          THEN /\ pc' = "persist"
               /\ sent' = <<Msg("no_active", None, <<>>)>>
               /\ calls' = calls
               /\ state' = state
               /\ disk' = disk
          ELSE /\ pc' = "list"
               /\ cur'.session = state.last_active_session
               /\ calls' = calls]_vars

\* C13 witness: ";x" arrived with no last active session and got the reply.
C13_Witness ==
    /\ pc = "persist"
    /\ Current.text = T_implicit
    /\ Authorized(Current)
    /\ state.last_active_session = None
    /\ calls = <<>>
    /\ sent = <<Msg("no_active", None, <<>>)>>

\* the characters an identifier is made of: letters, digits, underscore, dash
IdentChars == Range(Lowers) \cup Range(Uppers) \cup Digits \cup {"_", "-"}

\* text t is k identifier characters, a colon, w whitespace characters and a
\* non-empty rest, w being the most that leaves a rest
ExplicitForm(t, k, w) ==
    /\ k >= 1
    /\ Len(t) >= k + w + 2
    /\ \A i \in 1..k : t[i] \in IdentChars
    /\ t[k + 1] = ":"
    /\ \A i \in (k + 2)..(k + w + 1) : t[i] \in Whitespace
    /\ t[k + w + 2] \notin Whitespace \/ Len(t) = k + w + 2

\* the payload of a parser result with the "!" of a bypass put back
Restored(p) == IF p.bypass THEN <<"!">> \o p.content ELSE p.content

\* C14: for every text made of an identifier, a colon, whitespace and a
\* non-empty rest, the parser returns the identifier as the session and the
\* rest as the payload (less the "!" of a bypass): the whitespace after the
\* first colon is gone and every later colon and newline is kept.
C14_ExplicitParse ==
    pc = "parsed" =>
        \A k, w \in 0..Len(pin) :
            ExplicitForm(pin, k, w) =>
                /\ pout.session = SubSeq(pin, 1, k)
                /\ Restored(pout) = SubSeq(pin, k + w + 2, Len(pin))

\* C14 witness: "a: :" has been parsed into session "a" and payload ":".
C14_Witness ==
    /\ pc = "parsed"
    /\ pin = <<"a", ":", " ", ":">>
    /\ pout = [session |-> <<"a">>, content |-> <<":">>, bypass |-> FALSE]

\* C15: for every text that is not an identifier, a colon and a non-empty
\* rest, the parser returns no session and the whole text as the payload,
\* less one leading "!" when there is one.
C15_ImplicitParse ==
    (pc = "parsed" /\ ~\E k, w \in 0..Len(pin) : ExplicitForm(pin, k, w))
    => /\ pout.session = None
       /\ Restored(pout) = pin

\* C15 witness: ": a" (an empty identifier) has been parsed into no session
\* and the payload ": a".
C15_Witness ==
    /\ pc = "parsed"
    /\ pin = <<":", " ", "a">>
    /\ pout = [session |-> None, content |-> <<":", " ", "a">>, bypass |-> FALSE]

\* C16: in both branches bypass is set exactly when the payload the pattern
\* leaves begins with "!", and the payload returned is then that payload less
\* its first character; otherwise it is that payload itself.
C16_BypassFlag ==
    pc = "parsed" =>
        LET raw == RawPayload(pin)
        IN  /\ pout.bypass = (raw # <<>> /\ raw[1] = "!")
            /\ pout.content = IF pout.bypass THEN SubSeq(raw, 2, Len(raw)) ELSE raw

\* C16 witness: "!!a" has been parsed into the payload "!a" with bypass set.
C16_Witness ==
    /\ pc = "parsed"
    /\ pin = <<"!", "!", "a">>
    /\ pout = [session |-> None, content |-> <<"!", "a">>, bypass |-> TRUE]

\* the capture-pane that ended the current update with exit status 0
CaptureDone ==
    LET m == Mine(Current.update_id)
    IN  /\ pc = "persist"
        /\ m # <<>>
        /\ m[Len(m)].op = "capture-pane"
        /\ m[Len(m)].res = "ok"

\* what that capture-pane printed
CaptureOut == Mine(Current.update_id)[Len(Mine(Current.update_id))].out

\* the one message of the update relays text, cut to the limit when longer
Relayed(text) ==
    /\ Len(sent) = 1
    /\ sent[1].kind \in {"output", "capture"}
    /\ IF RunsLen(text) > CaptureLimit
       THEN /\ sent[1].text.runs = LastChars(text, CaptureLimit)
            /\ RunsLen(sent[1].text.runs) = CaptureLimit
            /\ sent[1].text.marker \in {TruncatedMark, BypassTruncatedMark}
       ELSE sent[1].text = [runs |-> text, marker |-> ""]

\* the capture text is reported: relayed, or, after a bypass delivery that
\* printed nothing, reported as "no output"
Reported(text) ==
    IF text = <<>> /\ Parsed.bypass /\ ~IsCommand(CommandText(Current))
    THEN sent = <<Msg("no_output", Target, <<>>)>>
    ELSE Relayed(text)

\* C17 as stated: on every capture path, what capture-pane printed is relayed
\* as it is when it has at most 3800 characters, and as its last 3800
\* characters and a truncation marker when it has more.
C17_TruncateRaw == CaptureDone => Reported(CaptureOut)

\* C17: on every capture path, what capture-pane printed less the whitespace
\* at its two ends is relayed as it is when it has at most 3800 characters,
\* and as its last 3800 characters and a truncation marker when it has more.
C17_TruncateStripped == CaptureDone => Reported(StripRuns(CaptureOut))

\* C17 witness: the capture command met a pane of 3801 characters and relayed
\* the last 3800 with the marker.
C17_Witness ==
    /\ CaptureDone
    /\ CommandText(Current) = T_capture
    /\ CaptureOut = <<Run("y", 1), Run("x", CaptureLimit)>>
    /\ sent[1].text = [runs |-> <<Run("x", CaptureLimit)>>, marker |-> TruncatedMark]

\* the current update is an authorized routed message whose text and Enter
\* both went in, and process_update() has ended
Delivered ==
    /\ pc = "persist"
    /\ Authorized(Current)
    /\ ~IsCommand(CommandText(Current))
    /\ Succeeded(Current.update_id, "send-text")
    /\ Succeeded(Current.update_id, "send-enter")

\* C18: after a bypass delivery, with autoCapture on or off, the invocations
\* go on with a wait of 2 seconds and one capture-pane of the target, and the
\* one message sent is the output, "no output" when nothing was printed, or
\* "capture failed" when the capture returned non-zero or raised; no plain
\* confirmation is sent.
C18_BypassCapture ==
    (Delivered /\ Parsed.bypass)
    => LET m == Mine(Current.update_id)
       IN  /\ Len(m) = 6
           /\ m[5].op = "sleep" /\ m[5].secs = 2
           /\ m[6].op = "capture-pane" /\ m[6].target = Target
           /\ Len(sent) = 1
           /\ sent[1].kind = IF m[6].res # "ok" THEN "bypass_capture_failed"
                              ELSE IF StripRuns(m[6].out) = <<>> THEN "no_output"
                              ELSE "output"

\* C19: after a normal-mode delivery with autoCapture set the invocations go
\* on with a wait of 5 seconds and one capture-pane of the target, and no
\* plain confirmation is sent; with autoCapture not set there is no
\* capture-pane and the one message sent is the plain confirmation.
C19_AutoCapture ==
    (Delivered /\ ~Parsed.bypass)
    => LET m == Mine(Current.update_id)
       IN  IF state.auto_capture
           THEN /\ Len(m) = 6
                /\ m[5].op = "sleep" /\ m[5].secs = 5
                /\ m[6].op = "capture-pane" /\ m[6].target = Target
                /\ Len(sent) = 1
                /\ sent[1].kind \in {"capture", "capture_failed", "error"}
           ELSE /\ \A i \in DOMAIN m : m[i].op # "capture-pane"
                /\ sent = <<Msg("delivered", Target, <<>>)>>

\* C19 witness: with autoCapture set, "b: $(x)" was delivered and, 5 seconds
\* later, the pane of b was captured and relayed.
C19_Witness ==
    /\ Delivered
    /\ Current.text = T_explicit
    /\ state.auto_capture
    /\ Len(calls) >= 2
    /\ calls[Len(calls) - 1].op = "sleep" /\ calls[Len(calls) - 1].secs = 5
    /\ calls[Len(calls)].op = "capture-pane"
    /\ Len(sent) = 1 /\ sent[1].kind = "capture"

\* C20: when process_update() has ended for the capture command, its only
\* invocation is one capture-pane of the last active session, or, when there
\* is none, it made no invocation and replied "no active session"; nothing
\* was injected, no list-sessions was run, and lastActiveSession and
\* autoCapture are what they were before the update.
C20_CaptureCommand ==
    (/\ pc = "persist"
     /\ Authorized(Current)
     /\ CommandText(Current) = T_capture)
    => LET m == Mine(Current.update_id)
           before == load_state(disk)
       IN  /\ IF before.last_active_session = None
              THEN /\ m = <<>>
                   /\ sent = <<Msg("no_active_capture", None, <<>>)>>
              ELSE /\ Len(m) = 1
                   /\ m[1].op = "capture-pane"
                   /\ m[1].target = before.last_active_session
           /\ \A i \in DOMAIN m : ~Keystroke(m[i]) /\ m[i].op # "list-sessions"
           /\ state.last_active_session = before.last_active_session
           /\ state.auto_capture = before.auto_capture

\* C20 witness: the capture command has snapshot the last active session b.
C20_Witness ==
    /\ pc = "persist"
    /\ CommandText(Current) = T_capture
    /\ Authorized(Current)
    /\ state.last_active_session = B
    /\ Len(Mine(Current.update_id)) = 1
    /\ calls[Len(calls)].op = "capture-pane" /\ calls[Len(calls)].target = B
    /\ Len(sent) = 1 /\ sent[1].kind = "capture"

\* the message that reports a text injection failing with result r
TextFailureMsg(r) ==
    IF r = "raised" THEN Msg("error", None, <<>>) ELSE Msg("text_failed", None, <<>>)

\* C29: when process_update() has ended and the Enter injection failed after
\* the text went in, the one message sent is the message a failed text
\* injection is reported with: the delivery failed, nothing is said of a part
\* of it having succeeded.
C29_OneFailedOutcome ==
    LET m == Mine(Current.update_id)
    IN  (/\ pc = "persist"
         /\ m # <<>>
         /\ m[Len(m)].op = "send-enter"
         /\ m[Len(m)].res # "ok")
        => sent = <<TextFailureMsg(m[Len(m)].res)>>

\* the delivery of the current update reached its end with both injections
\* made, and what follows it (the wait, the capture, the message) is under
\* way or done
AfterDelivery ==
    \/ pc \in {"bypass_wait", "bypass_capture", "auto_wait"}
    \/ pc = "send_capture" /\ cur.via = "route"
    \/ pc = "persist" /\ outcome = "delivered"

\* C30: from the end of a delivery on, through the 2 or 5 second wait and at
\* the time the confirmation or the capture report is sent, the file already
\* holds the target as last_active_session.
C30_PersistedBeforeNotification ==
    AfterDelivery => load_state(disk).last_active_session = state.last_active_session

\* C24: once the loop is entered the process ends on an interrupt only:
\* whatever fails while an update is handled or its state is saved, the loop
\* goes on.
C24_OnlyInterruptStops ==
    [][pc' = "exited" => outcome' = "interrupted"]_vars

\* the text of the current update went in and its Enter has not been tried
InFlight == pc \in {"await", "sendenter"}

\* C25: the process does not end while a delivery is in flight, that is
\* between the text injection and the Enter: the delivery goes on to its end.
C25_NoInterruptInFlight ==
    [][InFlight => pc' # "exited"]_vars

\* what the file holds for key k, or the default when the file or the key is
\* not there
Held(k, default) ==
    IF disk.exists /\ k \in DOMAIN disk.rec THEN JsonDecode(k, disk.rec[k]) ELSE default

\* C26: the state loaded from a file as found is the defaults when there is
\* no file, and otherwise holds, for each of its three keys, the value the
\* file has for it, and the default of last_active_session or auto_capture
\* when the file has none; a record without them loads without an error.
C26_LoadDefaults ==
    pc = "loaded" =>
        /\ DOMAIN state = {"last_update_id", "last_active_session", "auto_capture"}
        /\ state.last_update_id = Held("last_update_id", 0)
        /\ state.last_active_session = Held("last_active_session", None)
        /\ state.auto_capture = Held("auto_capture", FALSE)

\* C26 witness: a file of an older version, holding the offset and the
\* auto_capture flag only, has been loaded with no last active session.
C26_Witness ==
    /\ pc = "loaded"
    /\ DOMAIN disk.rec = {"last_update_id", "auto_capture"}
    /\ state = [last_update_id |-> 2, last_active_session |-> None, auto_capture |-> TRUE]

\* the file holds all three keys, as every file save_state() wrote does
Complete(d) ==
    d.exists /\ DOMAIN d.rec = {"last_update_id", "last_active_session", "auto_capture"}

\* C27: loading right after saving a valid state gives that state back,
\* whatever the file held before; and saving right after loading a file that
\* save_state() wrote leaves the file as it was.
C27_RoundTrip ==
    [][/\ pc = "saved" => state' = state
       /\ (pc = "loaded" /\ Complete(disk)) => disk' = disk]_vars

\* C27 witness: a state with a last active session and auto_capture set was
\* saved over the file of another state and loaded back.
C27_Witness ==
    /\ pc = "reloaded"
    /\ state = [last_update_id |-> 1, last_active_session |-> B, auto_capture |-> TRUE]
    /\ disk = save_state(state)

\* the requests among the events of the call
Requests == SelectSeq(pout.trace, LAMBDA e : e.ev = "request")

\* the failures a transport call is tried again after
Transient == {"timeout", "connection", "request"}

\* the call never raised, made no more requests than its budget, made each
\* request but the first after a transient failure of the one before it, and
\* when it ended on a transient failure the budget was used up
Retried(max_retries) ==
    /\ ~pout.raised
    /\ Len(Requests) <= max_retries
    /\ \A i \in 1..(Len(Requests) - 1) : Requests[i].got \in Transient
    /\ (pout.done /\ Requests[Len(Requests)].got \in Transient)
           => Len(Requests) = max_retries
    /\ ~pout.done => (Len(Requests) < max_retries /\ pout.attempt = Len(Requests))

\* C22: get_telegram_updates never raises, makes at most 3 requests, each
\* but the first after a timeout, a connection failure or another transport
\* error of the one before, ends with the first request that succeeded, and
\* returns an empty sequence when the last of the 3 failed.
C22_PollNeverRaises ==
    /\ Retried(PollMaxRetries)
    /\ pout.done =>
          /\ pc = "got"
          /\ pout.trace[Len(pout.trace)].ev = "request"
          /\ pout.value = IF Requests[Len(Requests)].got = "ok"
                          THEN Requests[Len(Requests)].data ELSE <<>>

\* C22 witness: three requests failed, by a timeout, a connection failure
\* and an HTTP error, and the call returned the empty sequence.
C22_Witness ==
    /\ pc = "got"
    /\ [i \in 1..Len(Requests) |-> Requests[i].got] = <<"timeout", "connection", "request">>
    /\ pout.value = <<>>
    /\ ~pout.raised
    /\ Len(pout.trace) = 5

\* C23: send_telegram_message never raises, makes at most 3 attempts, each
\* but the first after a timeout, a connection failure or another transport
\* error of the one before, returns true with the first attempt that
\* succeeded, and returns false when the last of the 3 failed.
C23_SendNeverRaises ==
    /\ Retried(SendMaxRetries)
    /\ pout.done =>
          /\ pc = "sent"
          /\ pout.trace[Len(pout.trace)].ev = "request"
          /\ pout.value = (Requests[Len(Requests)].got = "ok")

\* C23 witness: the second attempt succeeded after a timeout, and the call
\* returned true without a third.
C23_Witness ==
    /\ pc = "sent"
    /\ [i \in 1..Len(Requests) |-> Requests[i].got] = <<"timeout", "ok">>
    /\ pout.value = TRUE

\* the current update is an authorized message whose text, less the
\* whitespace around it and in small letters, is t, and it is taken up in
\* this step
Typed(t) ==
    /\ Begins
    /\ Current.message
    /\ Authorized(Current)
    /\ Lower(Strip(Current.text)) = t

\* the step ends the update with the one message of kind k and no invocation
Answers(k) ==
    /\ pc' = "persist"
    /\ calls' = calls
    /\ sent' = <<Msg(k, None, <<>>)>>

C28_NoMessageIgnored ==
    [][/\ (Begins /\ ~Current.message) =>
            /\ pc' = "persist"
            /\ calls' = calls
            /\ sent' = <<>>
            /\ state' = state
            /\ disk' = disk
       /\ (pc = "persist" /\ ~Current.message /\ pc' \in {"next", "poll"}) =>
            /\ offset' = Current.update_id + 1
            /\ load_state(disk').last_update_id = Current.update_id + 1
            /\ load_state(disk').last_active_session = state.last_active_session
            /\ load_state(disk').auto_capture = state.auto_capture]_vars

\* C28 witness: an entry without a message, arriving when b was the last
\* active session, has been passed over and the file holds its id + 1.
C28_Witness ==
    /\ pc \in {"next", "poll"}
    /\ idx > 1
    /\ ~updates[idx - 1].message
    /\ outcome = "ignored"
    /\ sent = <<>>
    /\ state.last_active_session = B
    /\ Persisted = updates[idx - 1].update_id + 1

\* C32: a request of get_telegram_updates that failed by something other than
\* a timeout, a connection failure or another transport error is the last
\* event of the call: no wait and no request follows it, whatever is left of
\* the 3 attempts, and the call has returned the empty sequence.
C32_OtherAbortsAtOnce ==
    \A i \in DOMAIN pout.trace :
        (pout.trace[i].ev = "request" /\ pout.trace[i].got = "other") =>
            /\ i = Len(pout.trace)
            /\ pc = "got"
            /\ pout.done /\ ~pout.raised
            /\ pout.value = <<>>

\* C32 witness: the first request met an unexpected failure and the call
\* returned the empty sequence with two attempts left.
C32_Witness ==
    /\ pc = "got"
    /\ pout.trace = <<Event("request", "other", 0, <<>>)>>
    /\ pout.attempt = 1 /\ PollMaxRetries = 3
    /\ pout.value = <<>>

\* the attempt budget of the call under way
Budget == IF pc \in {"get", "got"} THEN PollMaxRetries ELSE SendMaxRetries

\* the number of requests among the first i events of the call
RequestsUpTo(i) ==
    Cardinality({j \in 1..i : pout.trace[j].ev = "request"})

\* the waits of an exponential backoff: after the first failed attempt, the
\* second, ...
Waits == <<1, 2, 4, 8>>

\* C33: in a poll and in a notify alike, every wait directly follows a request
\* that failed by a timeout, a connection failure or another transport error,
\* the wait after the k-th request lasts 2^(k-1) seconds, a wait is never the
\* last thing the call does and none follows the last attempt of the budget;
\* and every such failure before the last attempt is followed by its wait.
C33_ExponentialBackoff ==
    LET tr == pout.trace
    IN  /\ \A i \in DOMAIN tr : tr[i].ev = "sleep" =>
              /\ i > 1
              /\ tr[i - 1].ev = "request" /\ tr[i - 1].got \in Transient
              /\ tr[i].secs = Waits[RequestsUpTo(i)]
              /\ RequestsUpTo(i) < Budget
              /\ IF i = Len(tr) THEN ~pout.done ELSE tr[i + 1].ev = "request"
        /\ \A i \in DOMAIN tr :
              (tr[i].ev = "request" /\ tr[i].got \in Transient /\ RequestsUpTo(i) < Budget)
                  => (i < Len(tr) /\ tr[i + 1].ev = "sleep")
        /\ pout.done => tr[Len(tr)].ev = "request"

\* C33 witness: a message whose three attempts all failed: the call waited 1
\* second after the first, 2 seconds after the second, and returned false
\* right after the third.
C33_Witness ==
    /\ pc = "sent"
    /\ pout.value = FALSE
    /\ [i \in DOMAIN pout.trace |-> pout.trace[i].secs] = <<0, 1, 0, 2, 0>>
    /\ pout.trace[5].got = "timeout"

\* the Enter of the current update is injected in this step and succeeds
Delivers ==
    /\ pc = "sendenter"
    /\ Running
    /\ calls'[Len(calls')].op = "send-enter"
    /\ calls'[Len(calls')].res = "ok"

\* C34: a start sets lastActiveSession to what the file holds; from then on
\* the step in which the Enter of a delivery succeeds sets it to the target of
\* that update, and no other step of the process changes it, however the
\* update ends (unauthorized, command, not found, no sessions, failed
\* injection, exception).
C34_LastActiveSession ==
    [][/\ (pc = "load" /\ Running) =>
            state'.last_active_session = load_state(disk).last_active_session
       /\ (pc # "load" /\ Running) =>
            state'.last_active_session =
                IF Delivers THEN Target ELSE state.last_active_session]_vars

\* C34 witness: after a delivery to b, the capture command ended in an
\* exception and b is still the last active session.
C34_Witness ==
    /\ pc = "persist"
    /\ idx = 2
    /\ Succeeded(updates[1].update_id, "send-enter")
    /\ CommandText(Current) = T_capture
    /\ outcome = "exception"
    /\ state.last_active_session = B

\* the text of the current update may be, or has been, injected
Injecting ==
    \/ pc \in {"sendtext", "await", "sendenter", "bypass_wait", "bypass_capture", "auto_wait"}
    \/ pc = "send_capture" /\ cur.via = "route"

\* C35: every update that injects a keystroke ran its own list-sessions
\* first, once, with success; the session it injects into is in the list that
\* query returned, for an explicit and for a remembered session alike; and an
\* update whose session is not in its list ends with the reply "not found"
\* and no keystroke.
C35_RevalidatedEachMessage ==
    /\ \A j \in DOMAIN calls : Keystroke(calls[j]) =>
          LET m == Mine(calls[j].id)
          IN  /\ m[1].op = "list-sessions" /\ m[1].res = "ok"
              /\ Cardinality({i \in DOMAIN m : m[i].op = "list-sessions"}) = 1
    /\ Injecting =>
          /\ cur.session \in Range(cur.active_sessions)
          /\ \A i \in DOMAIN Mine(Current.update_id) :
                Keystroke(Mine(Current.update_id)[i]) =>
                    Mine(Current.update_id)[i].target \in Range(cur.active_sessions)
    /\ (pc = "persist" /\ outcome = "not_found") =>
          /\ sent[1].session = Target
          /\ Target \notin Range(sent[1].body)
          /\ \A i \in DOMAIN Mine(Current.update_id) : ~Keystroke(Mine(Current.update_id)[i])

\* C35 witness: ";x" arrived when b, delivered to before, was the last
\* active session and the list held o only: it got "not found" and nothing
\* was injected.
C35_Witness ==
    /\ pc = "persist"
    /\ Current.text = T_implicit
    /\ state.last_active_session = B
    /\ outcome = "not_found"
    /\ sent = <<Msg("not_found", B, <<O>>)>>
    /\ Len(Mine(Current.update_id)) = 1

\* C36: when process_update() has ended for an authorized update that carries
\* a message, exactly one message has been handed to the Notifier, whatever
\* the outcome.
C36_ExactlyOneMessage ==
    (pc = "persist" /\ HasMessage(Current) /\ Authorized(Current)) => Len(sent) = 1

\* C37: when the Notifier returned false for the message of a delivered
\* update, lastActiveSession is the target, text and Enter were injected once
\* each, and the step that follows moves the loop past the update with the
\* offset, in memory and in the file, at its id + 1 and the target persisted.
C37_NotifierResultIgnored ==
    [][(/\ pc = "persist"
        /\ Running
        /\ Succeeded(Current.update_id, "send-enter")
        /\ FALSE \in Range(cur.notified))
       => LET m == Mine(Current.update_id)
          IN  /\ outcome = "delivered"
              /\ state.last_active_session = Target
              /\ Cardinality({i \in DOMAIN m : m[i].op = "send-text"}) = 1
              /\ Cardinality({i \in DOMAIN m : m[i].op = "send-enter"}) = 1
              /\ idx' = idx + 1
              /\ offset' = Current.update_id + 1
              /\ state' = [state EXCEPT !.last_update_id = Current.update_id + 1]
              /\ load_state(disk') = state']_vars

\* C37 witness: "b: $(x)" was delivered to b and the Notifier returned false
\* for the confirmation.
C37_Witness ==
    /\ pc = "persist"
    /\ Current.text = T_explicit
    /\ Succeeded(Current.update_id, "send-enter")
    /\ sent = <<Msg("delivered", B, <<>>)>>
    /\ cur.notified = <<FALSE>>
    /\ state.last_active_session = B

\* C38: a poll that returns no updates changes neither the offset, the state
\* in memory nor the file, makes no invocation, sends no message, and leaves
\* the loop at the poll, so that the next one asks from the same offset.
C38_EmptyPollNoEffect ==
    [][(pc = "poll" /\ Running /\ updates' = <<>>) =>
          /\ pc' = "poll"
          /\ offset' = offset
          /\ state' = state
          /\ disk' = disk
          /\ calls' = <<>>
          /\ sent' = sent]_vars

\* C38 witness: a poll came back empty-handed although the transport holds an
\* update at the offset; the state is as the file holds it.
C38_Witness ==
    /\ pc = "poll"
    /\ updates = <<>>
    /\ \E i \in DOMAIN inbox : inbox[i].update_id >= offset
    /\ offset = Persisted
    /\ state.last_active_session = B
    /\ state = load_state(disk)

\* C39: whenever the loop is about to take up an update or to poll, the file
\* holds the state as it is in memory, and the offset is the state's
\* last_update_id.
C39_DiskEqualsMemory ==
    pc \in {"next", "poll"} =>
        /\ load_state(disk) = state
        /\ offset = state.last_update_id

\* C39 witness: between the two updates of a batch whose first was "capture
\* on", the file holds the flag and the offset of the memory.
C39_Witness ==
    /\ pc = "next"
    /\ idx = 2
    /\ CommandText(updates[1]) = T_capture_on
    /\ state.auto_capture
    /\ disk.exists
    /\ load_state(disk) = state
    /\ offset = updates[1].update_id + 1

\* what the parser makes of the text as the operator sent it, less the
\* whitespace around it
ParsedAsSent == parse_message_id(Strip(Current.text))

\* C31: a text that is no command is routed as the operator sent it: the
\* session that goes to the session list is the one parsed from the text with
\* its letter case kept (or the remembered one when it names none), and so is
\* the payload that goes to be injected.
C31_CasePreserved ==
    pc = "list" =>
        /\ cur.session = IF ParsedAsSent.session = None THEN state.last_active_session
                                                         ELSE ParsedAsSent.session
        /\ cur.response = ParsedAsSent.content

\* text t is an identifier and a colon with nothing after it
IdentColon(t) ==
    /\ Len(t) >= 2
    /\ t[Len(t)] = ":"
    /\ \A i \in 1..(Len(t) - 1) : t[i] \in IdentChars

\* the texts the parser may be given for the current update: the text as
\* sent, and as process_update() hands it on
TextsOfCurrent == {Current.text, CommandText(Current)}

\* an identifier and a colon alone parse as an implicit message whose payload
\* is the whole text, and in the pipeline go to the remembered session, or
\* get "no active session" when there is none
IdentColonImplicit ==
    /\ \A t \in TextsOfCurrent :
          IdentColon(t) => parse_message_id(t) = [session |-> None, content |-> t, bypass |-> FALSE]
    /\ (pc # "next" /\ IdentColon(CommandText(Current))) =>
          IF state.last_active_session = None
          THEN pc = "persist" /\ sent = <<Msg("no_active", None, <<>>)>>
          ELSE /\ pc = "list"
               /\ cur.session = state.last_active_session
               /\ cur.response = CommandText(Current)

====
